---- MODULE Spec2Model ----
(***************************************************************************)
(* Model of src/src/rpc.rs: the shared MiningContext of the pool adapter,  *)
(* its construction (P3dParams::new, MiningContext::new), its inbound      *)
(* endpoint (on_new_object), the parameter refresh (ask_mining_params),    *)
(* the outbound queue (push_to_queue) and the packaging/submission of a    *)
(* proposal (push_to_node).                                                *)
(*                                                                         *)
(* Text is a sequence of one-character strings, bytes are sequences of     *)
(* numbers 0..255.  A H256 is its 32 bytes; a U256 is its 32 bytes, most   *)
(* significant first (a numeral of the 256-bit number).                    *)
(***************************************************************************)
EXTENDS Integers, Sequences, FiniteSets, TLC

\* ------------------------------------------------------------------ bounds
\* inbound calls accepted over a run
MaxAccepts == 2
\* refreshes started over a run
MaxRefresh == 2
\* proposals assembled over a run
MaxProposals == 2

\* ------------------------------------------------------- program constants
\* H256 / U256: 32 bytes, 64 hex digits
HashBytes == 32
\* P3dParams::new: grid
Grid == 8
\* P3dParams::new: sect of grid2d
SectGrid2d == 66
\* P3dParams::new: sect of grid2d_v2 and grid2d_v3
SectGrid2dV2 == 12
\* MiniSecretKey::from_bytes: the length of a mini secret key
MiniSecretKeyLength == 32

\* ------------------------------------------------------------------ values
Rep(c, n) == [i \in 1..n |-> c]
Reverse(s) == [i \in 1..Len(s) |-> s[Len(s) + 1 - i]]
Text2(a, b) == <<a, b>>

None == [tag |-> "None"]
Some(x) == [tag |-> "Some", val |-> x]
IsSome(o) == o.tag = "Some"

ResOk(x) == [tag |-> "Ok", val |-> x]
ResErr == [tag |-> "Err"]
IsOk(r) == r.tag = "Ok"

\* serde_json::Value
JNull == [t |-> "null"]
JNum(n) == [t |-> "num", n |-> n]
JStr(s) == [t |-> "str", s |-> s]
JArr(a) == [t |-> "arr", a |-> a]

\* Value::get(index): an element of an array, None otherwise
JGet(v, i) == IF v.t = "arr" /\ i + 1 <= Len(v.a) THEN Some(v.a[i + 1]) ELSE None
\* Value::as_str
JAsStr(v) == IF v.t = "str" THEN Some(v.s) ELSE None
\* Value::as_u64: a number that is not negative
JAsU64(v) == IF v.t = "num" /\ v.n >= 0 THEN Some(v.n) ELSE None

\* ------------------------------------------------------------ hex decoding
HexVal(c) ==
    CASE c = "0" -> 0 [] c = "1" -> 1 [] c = "2" -> 2 [] c = "3" -> 3
      [] c = "4" -> 4 [] c = "5" -> 5 [] c = "6" -> 6 [] c = "7" -> 7
      [] c = "8" -> 8 [] c = "9" -> 9
      [] c = "a" -> 10 [] c = "b" -> 11 [] c = "c" -> 12
      [] c = "d" -> 13 [] c = "e" -> 14 [] c = "f" -> 15
      [] c = "A" -> 10 [] c = "B" -> 11 [] c = "C" -> 12
      [] c = "D" -> 13 [] c = "E" -> 14 [] c = "F" -> 15
      [] OTHER -> -1

IsHex(s) == \A i \in 1..Len(s) : HexVal(s[i]) >= 0

StripPrefix0x(s) ==
    IF Len(s) >= 2 /\ s[1] = "0" /\ s[2] = "x" THEN SubSeq(s, 3, Len(s)) ELSE s

\* an even number of hex digits to bytes
HexPairs(s) == [i \in 1..(Len(s) \div 2) |-> 16 * HexVal(s[2 * i - 1]) + HexVal(s[2 * i])]

\* H256::from_str: exactly 64 hex digits, an optional 0x before them
H256FromStr(str) ==
    LET s == StripPrefix0x(str)
    IN  IF Len(s) = 2 * HashBytes /\ IsHex(s) THEN ResOk(HexPairs(s)) ELSE ResErr

\* a decode that falls back to zero where the digits do not parse
U256FromStrRadixOrZero(str) ==
    LET s == StripPrefix0x(str)
    IN  IF Len(s) <= 2 * HashBytes /\ IsHex(s)
        THEN ResOk(HexPairs(Rep("0", 2 * HashBytes - Len(s)) \o s))
        ELSE ResOk(Rep(0, HashBytes))

\* U256::from_str_radix(_, 16): at most 64 hex digits, the number they write
U256FromStrRadix(str) ==
    LET s == StripPrefix0x(str)
    IN  IF Len(s) <= 2 * HashBytes /\ IsHex(s)
        THEN ResOk(HexPairs(Rep("0", 2 * HashBytes - Len(s)) \o s))
        ELSE ResErr

\* U256::encode (SCALE): the 32 bytes, least significant first
U256Encode(u) == Reverse(u)

\* the compressed Edwards points among the byte strings of the model: the base
\* point (y = 4/5) and the neutral element (y = 1); y = 2 and y = 7 are on no point
BasePointBytes == <<88>> \o Rep(102, HashBytes - 1)
NeutralPointBytes == <<1>> \o Rep(0, HashBytes - 1)
CurvePoints == {BasePointBytes, NeutralPointBytes}

\* ecies_ed25519::PublicKey::from_bytes
PublicKeyFromBytes(b) ==
    IF Len(b) = HashBytes /\ b \in CurvePoints THEN ResOk(b) ELSE ResErr

\* ---------------------------------------------------------- MiningParams
MiningParams(pre_hash, parent_hash, win_dfclty, pow_dfclty, pub_key) ==
    [pre_hash |-> pre_hash, parent_hash |-> parent_hash,
     win_dfclty |-> win_dfclty, pow_dfclty |-> pow_dfclty, pub_key |-> pub_key]

\* ------------------------------------------------ responses of the pool node
HexBase == Text2("5", "8") \o Rep("6", 2 * HashBytes - 2)
HexNeutral == Text2("0", "1") \o Rep("0", 2 * HashBytes - 2)
HexOffCurve == Text2("0", "2") \o Rep("0", 2 * HashBytes - 2)

WellFormedResponses == {"round1", "round2"}
MalformedResponses ==
    {"absent", "notArray", "notString", "badHash", "badInt", "badPoint"}
ResponseNames == WellFormedResponses \cup MalformedResponses

Round1Fields ==
    << JStr(Rep("1", 2 * HashBytes)), JStr(Rep("2", 2 * HashBytes)),
       JStr(Text2("f", "f")), JStr(<<"0", "a", "0", "0">>), JStr(HexBase) >>

\* what poscan_getMiningParams answers, by name
PoolResponse(name) ==
    CASE name = "round1" -> JArr(Round1Fields)
      [] name = "round2" ->
            JArr(<< JStr(Text2("0", "x") \o Rep("3", 2 * HashBytes)),
                    JStr(Rep("4", 2 * HashBytes)),
                    JStr(<<"1", "F", "f">>), JStr(Text2("1", "0")),
                    JStr(HexNeutral) >>)
      [] name = "absent" -> JArr(SubSeq(Round1Fields, 1, 4))
      [] name = "notArray" -> JNull
      [] name = "notString" -> JArr([Round1Fields EXCEPT ![3] = JNum(255)])
      [] name = "badHash" ->
            JArr([Round1Fields EXCEPT ![1] = JStr(Rep("1", 2 * HashBytes - 1))])
      [] name = "badInt" ->
            JArr([Round1Fields EXCEPT ![4] = JStr(<<"x", "y", "z">>)])
      [] name = "badPoint" -> JArr([Round1Fields EXCEPT ![5] = JStr(HexOffCurve)])

\* ------------------------------------------------------- ask_mining_params
\* the public key of a response: the number, encoded, reversed, as a point
DecodePubKey(u) == PublicKeyFromBytes(Reverse(U256Encode(u)))

\* a snapshot with the two difficulties exchanged
NewParamsSwapped(f0, f1, f2, f3, f4) == MiningParams(f0, f1, f3, f2, f4)

\* MiningParams {..}: the snapshot the refresh builds from the decoded fields
\* of positions 0..4
NewParams(f0, f1, f2, f3, f4) == MiningParams(f0, f1, f2, f3, f4)

\* the decode of a response: "panic" (an expect or unwrap fails), "incorrect"
\* (some field is no string: a message is printed), or "apply" with the snapshot
AskOutcome(response) ==
    LET f(i) == JGet(response, i)
    IN  IF \E i \in 0..4 : ~IsSome(f(i)) THEN [kind |-> "panic"]
        ELSE LET s(i) == JAsStr(f(i).val)
             IN  IF \E i \in 0..4 : ~IsSome(s(i)) THEN [kind |-> "incorrect"]
                 ELSE LET pre == H256FromStr(s(0).val)
                          par == H256FromStr(s(1).val)
                          win == U256FromStrRadix(s(2).val)
                          pow == U256FromStrRadix(s(3).val)
                          num == U256FromStrRadix(s(4).val)
                      IN  IF ~(IsOk(pre) /\ IsOk(par) /\ IsOk(win) /\ IsOk(pow) /\ IsOk(num))
                          THEN [kind |-> "panic"]
                          ELSE LET key == DecodePubKey(num.val)
                               IN  IF ~IsOk(key) THEN [kind |-> "panic"]
                                   ELSE [kind |-> "apply",
                                         params |-> NewParams(pre.val, par.val, win.val,
                                                              pow.val, key.val)]

\* a store that keeps the public key of the snapshot before
StoreMerged(old, new) ==
    IF IsSome(old) THEN Some([new EXCEPT !.pub_key = old.val.pub_key]) ELSE Some(new)

\* a store that empties a snapshot that is there
StoreForgets(old, new) == IF IsSome(old) THEN None ELSE Some(new)

\* (*lock) = Some(MiningParams {..}): the whole snapshot is replaced
Store(old, new) == Some(new)

\* -------------------------------------------------------------- MiningObj
MiningObj(obj_id, obj) == [obj_id |-> obj_id, obj |-> obj]

\* the code point of a character of the model's texts
CodePoint(c) ==
    CASE c = "a" -> 97 [] c = "b" -> 98 [] c = "c" -> 99 [] c = "U+00E9" -> 233

\* UTF-8 of one code point
Utf8(cp) ==
    IF cp < 128 THEN <<cp>>
    ELSE IF cp < 2048 THEN <<192 + (cp \div 64), 128 + (cp % 64)>>
    ELSE <<224 + (cp \div 4096), 128 + ((cp \div 64) % 64), 128 + (cp % 64)>>

RECURSIVE Concat(_)
Concat(ss) == IF ss = <<>> THEN <<>> ELSE Head(ss) \o Concat(Tail(ss))

\* one number a character instead of its UTF-8 bytes
AsBytesCodePoints(str) == [i \in 1..Len(str) |-> CodePoint(str[i])]

\* str::as_bytes().to_vec(): the UTF-8 bytes of the text
AsBytes(str) == Concat([i \in 1..Len(str) |-> Utf8(CodePoint(str[i]))])

\* ------------------------------------------- calls of poscan_pushMiningObject
WellFormedCalls == {"obj7", "obj8"}
MalformedCalls ==
    {"notArray", "empty", "noData", "idString", "idNegative", "dataNumber"}
CallNames == WellFormedCalls \cup MalformedCalls

TextAbc == <<"a", "b", "c">>

\* the positional parameters of a call, by name
CallParams(name) ==
    CASE name = "obj7" -> JArr(<<JNum(7), JStr(TextAbc)>>)
      [] name = "obj8" -> JArr(<<JNum(8), JStr(<<"U+00E9">>)>>)
      [] name = "notArray" -> JNull
      [] name = "empty" -> JArr(<<>>)
      [] name = "noData" -> JArr(<<JNum(7)>>)
      [] name = "idString" -> JArr(<<JStr(<<"7">>), JStr(TextAbc)>>)
      [] name = "idNegative" -> JArr(<<JNum(-1), JStr(TextAbc)>>)
      [] name = "dataNumber" -> JArr(<<JNum(7), JNum(5)>>)

\* on_new_object up to the lock: the MiningObj, or "panic" when an unwrap fails
ParseObject(data) ==
    LET id == JGet(data, 0)
        ob == JGet(data, 1)
    IN  IF ~IsSome(id) THEN [kind |-> "panic"]
        ELSE IF ~IsSome(JAsU64(id.val)) THEN [kind |-> "panic"]
        ELSE IF ~IsSome(ob) THEN [kind |-> "panic"]
        ELSE IF ~IsSome(JAsStr(ob.val)) THEN [kind |-> "panic"]
        ELSE [kind |-> "push",
              obj |-> MiningObj(JAsU64(id.val).val, AsBytes(JAsStr(ob.val).val))]

\* a push at the front, and a push that stores the item twice
PushFront(q, x) == <<x>> \o q
PushTwice(q, x) == Append(Append(q, x), x)
\* a push that leaves out an item the queue already holds
PushUnlessQueued(q, x) == IF \E k \in 1..Len(q) : q[k] = x THEN q ELSE Append(q, x)

\* VecDeque::push_back
PushBack(q, x) == Append(q, x)

\* ------------------------------------------------------ AlgoType, P3dParams
\* AlgoType::as_str
AsStr(algo) ==
    CASE algo = "Grid2d" -> <<"G", "r", "i", "d", "2", "d">>
      [] algo = "Grid2dV2" -> <<"G", "r", "i", "d", "2", "d", "V", "2">>
      [] algo = "Grid2dV3" -> <<"G", "r", "i", "d", "2", "d", "V", "3">>

\* parameters that take grid2d_v3 for grid2d_v2
P3dParamsNewV3AsV2(ver) ==
    CASE ver = "grid2d" -> [kind |-> "ok", algo |-> "Grid2d", grid |-> Grid, sect |-> SectGrid2d]
      [] ver = "grid2d_v2" -> [kind |-> "ok", algo |-> "Grid2dV2", grid |-> Grid, sect |-> SectGrid2dV2]
      [] ver = "grid2d_v3" -> [kind |-> "ok", algo |-> "Grid2dV2", grid |-> Grid, sect |-> SectGrid2dV2]
      [] OTHER -> [kind |-> "panic"]

\* P3dParams::new: the parameters of a version name, "panic" for any other name
P3dParamsNew(ver) ==
    CASE ver = "grid2d" -> [kind |-> "ok", algo |-> "Grid2d", grid |-> Grid, sect |-> SectGrid2d]
      [] ver = "grid2d_v2" -> [kind |-> "ok", algo |-> "Grid2dV2", grid |-> Grid, sect |-> SectGrid2dV2]
      [] ver = "grid2d_v3" -> [kind |-> "ok", algo |-> "Grid2dV3", grid |-> Grid, sect |-> SectGrid2dV2]
      [] OTHER -> [kind |-> "panic"]

\* --------------------------------------------------------- MiningProposal
MiningProposal(params, hash, obj_id, obj) ==
    [params |-> params, hash |-> hash, obj_id |-> obj_id, obj |-> obj]

\* the candidate hashes the search finds
Hashes == {Rep(171, HashBytes), Rep(205, HashBytes)}

\* ----------------------------------------------------------- push_to_node
HexDigit(n) ==
    <<"0", "1", "2", "3", "4", "5", "6", "7", "8", "9", "a", "b", "c", "d", "e", "f">>[n + 1]

\* hex::encode of bytes: two lower-case digits a byte
ToHex(bytes) ==
    [i \in 1..(2 * Len(bytes)) |->
        IF i % 2 = 1 THEN HexDigit(bytes[(i + 1) \div 2] \div 16)
        ELSE HexDigit(bytes[i \div 2] % 16)]

RECURSIVE StripZeros(_)
StripZeros(s) == IF Len(s) > 1 /\ s[1] = "0" THEN StripZeros(Tail(s)) ELSE s

\* serde of H256: "0x" and the 64 digits; of U256: "0x" and the digits of the
\* number without leading zeros
SerH256(h) == JStr(Text2("0", "x") \o ToHex(h))
SerU256(u) == JStr(Text2("0", "x") \o StripZeros(ToHex(u)))
SerBytes(b) == JArr([i \in 1..Len(b) |-> JNum(b[i])])

\* a payload that takes the round from the shared snapshot when there is one
PayloadOfState(pool, member, algo, proposal, state) ==
    [pool_id |-> pool, member_id |-> member,
     pre_hash |-> IF IsSome(state) THEN state.val.pre_hash ELSE proposal.params.pre_hash,
     parent_hash |-> IF IsSome(state) THEN state.val.parent_hash ELSE proposal.params.parent_hash,
     algo |-> AsStr(algo),
     dfclty |-> IF IsSome(state) THEN state.val.pow_dfclty ELSE proposal.params.pow_dfclty,
     hash |-> proposal.hash, obj_id |-> proposal.obj_id, obj |-> proposal.obj]

\* Payload {..}: built from the proposal and the identity of the context; state
\* is the shared snapshot, of which the code reads nothing
Payload(pool, member, algo, proposal, state) ==
    [pool_id |-> pool, member_id |-> member,
     pre_hash |-> proposal.params.pre_hash,
     parent_hash |-> proposal.params.parent_hash,
     algo |-> AsStr(algo),
     dfclty |-> proposal.params.pow_dfclty,
     hash |-> proposal.hash, obj_id |-> proposal.obj_id, obj |-> proposal.obj]

\* serde_json::to_string of a Payload: the members in the order of the struct
ToJson(payload) ==
    << <<"pool_id", JStr(payload.pool_id)>>, <<"member_id", JStr(payload.member_id)>>,
       <<"pre_hash", SerH256(payload.pre_hash)>>,
       <<"parent_hash", SerH256(payload.parent_hash)>>,
       <<"algo", JStr(payload.algo)>>, <<"dfclty", SerU256(payload.dfclty)>>,
       <<"hash", SerH256(payload.hash)>>, <<"obj_id", JNum(payload.obj_id)>>,
       <<"obj", SerBytes(payload.obj)>> >>

\* StdRng::from_seed(hash.encode()): the seed is the 32 bytes of the hash
SeedOf(hash) == hash

\* ecies_ed25519::encrypt, symbolically: the ciphertext is determined by the
\* receiver's key, the plaintext and the seed of the generator
Encrypt(pub_key, message, seed) == [to |-> pub_key, plain |-> message, seed |-> seed]

\* MiniSecretKey::from_bytes(..).expand(Ed25519) and SecretKey::to_public, symbolically
ExpandKey(seed) == [secret |-> seed]
ToPublic(key) == [public_of |-> key.secret]

\* MiningContext::sign: a signature of msg under the context "Mining pool"
SignCtx == "Mining pool"
Sign(key, msg) == [ctx |-> SignCtx, signer |-> ToPublic(key), msg |-> msg]

\* the parameters of poscan_pushMiningObjectToPool
PushRequest(encrypted, member, sign) ==
    [method |-> "poscan_pushMiningObjectToPool",
     params |-> [encrypted |-> encrypted, member_id |-> member, sign_hex |-> sign]]

\* ------------------------------------------------------ MiningContext::new
\* str::replacen("0x", "", 1): the text without its first "0x", wherever it is
RECURSIVE Replacen0x(_)
Replacen0x(s) ==
    IF Len(s) < 2 THEN s
    ELSE IF s[1] = "0" /\ s[2] = "x" THEN SubSeq(s, 3, Len(s))
    ELSE <<s[1]>> \o Replacen0x(Tail(s))

\* hex::decode: the bytes of an even number of hex digits, Err otherwise
HexDecode(s) == IF Len(s) % 2 = 0 /\ IsHex(s) THEN ResOk(HexPairs(s)) ELSE ResErr

\* MiniSecretKey::from_bytes: Err unless there are exactly 32 bytes
MiniSecretKeyFromBytes(b) == IF Len(b) = MiniSecretKeyLength THEN ResOk(b) ELSE ResErr

\* the secret keys of the configuration, by name
ValidKeys == {"seed", "seed0x"}
BadEncodingKeys == {"oddLength", "notHex", "inner0x"}
BadLengthKeys == {"short", "long", "empty"}
KeyNames == ValidKeys \cup BadEncodingKeys \cup BadLengthKeys

HexSeed == Concat(Rep(Text2("0", "7"), MiniSecretKeyLength))

KeyText(name) ==
    CASE name = "seed" -> HexSeed
      [] name = "seed0x" -> Text2("0", "x") \o HexSeed
      [] name = "oddLength" -> Tail(HexSeed)
      [] name = "notHex" -> Text2("z", "z") \o SubSeq(HexSeed, 3, Len(HexSeed))
      [] name = "inner0x" -> Text2("0", "x") \o Text2("0", "x") \o HexSeed
      [] name = "short" -> SubSeq(HexSeed, 1, 4)
      [] name = "long" -> HexSeed \o Text2("0", "7")
      [] name = "empty" -> <<>>

\* the addresses of the pool, by name, and HttpClientBuilder::build of each
PoolAddrs == {"url", "notUrl"}
BuildClient(pool_addr) == IF pool_addr = "url" THEN ResOk("client") ELSE ResErr

\* MiningContext::new: "err" (the ? of hex::decode or of build), "panic" (the
\* expect of MiniSecretKey::from_bytes), or "ok" with the context
MiningContextNew(p3d, pool_addr, pool, member, key_text) ==
    LET key_data == HexDecode(Replacen0x(key_text))
    IN  IF ~IsOk(key_data) THEN [kind |-> "err"]
        ELSE LET mini == MiniSecretKeyFromBytes(key_data.val)
             IN  IF ~IsOk(mini) THEN [kind |-> "panic"]
                 ELSE IF ~IsOk(BuildClient(pool_addr)) THEN [kind |-> "err"]
                 ELSE [kind |-> "ok",
                       ctx |-> [p3d_params |-> p3d, pool_id |-> pool,
                                member_id |-> member, key |-> ExpandKey(mini.val),
                                cur_state |-> None, in_queue |-> <<>>,
                                out_queue |-> <<>>]]

\* ------------------------------------------------------------------ state
VARIABLES
    built,       \* what the context was built from, and how the construction ended
    p3d_params,  \* MiningContext.p3d_params
    pool_id,     \* MiningContext.pool_id
    member_id,   \* MiningContext.member_id
    key,         \* MiningContext.key
    cur_state,   \* MiningContext.cur_state: None or Some(MiningParams)
    in_queue,    \* MiningContext.in_queue
    out_queue,   \* MiningContext.out_queue
    cur_lock,    \* the holder of the mutex of cur_state
    in_lock,     \* the holder of the mutex of in_queue
    out_lock,    \* the holder of the mutex of out_queue
    acc,         \* the running calls of on_new_object: position, parameters
    ask,         \* the call of ask_mining_params: position, response
    wrk,         \* the search workers: position, snapshot read, object taken, proposal
    sub,         \* the call of push_to_node: position, proposal, request
    returned,    \* the call that ended last: operation, argument, result
    in_hist,     \* objects in the order pushed to in_queue, and those popped
    out_hist,    \* proposals in the order pushed to out_queue, and those popped
    sent,        \* the requests push_to_node sent, each with the hash of its proposal
    calls        \* how many accepts, refreshes and proposals were started

identity == <<built, p3d_params, pool_id, member_id, key>>
shared == <<cur_state, in_queue, out_queue>>
locks == <<cur_lock, in_lock, out_lock>>
tasks == <<acc, ask, wrk, sub>>
ghost == <<returned, in_hist, out_hist, sent, calls>>
vars == <<identity, shared, locks, tasks, ghost>>

\* the concurrent invocations of the inbound method, and the search workers
Handlers == {1, 2}
Workers == {1, 2}

\* the version name the context is built for, and the other names of a
\* configuration
Version == "grid2d_v2"
VersionNames == {"grid2d", "grid2d_v2", "grid2d_v3", "bogus", "Grid2dV2"}

Free == <<"free", 0>>
NoRet == [tag |-> "none"]
Panicked == [tag |-> "panic"]
\* Ok(json!(0)) and Ok(())
Ack == "0"
Unit == "()"

Returned(op, arg, ret) == [op |-> op, arg |-> arg, ret |-> ret]

TextP1 == Text2("P", "1")
TextM1 == Text2("M", "1")
KeySeed == Rep(7, MiniSecretKeyLength)

\* the start: P3dParams::new of a version name, then MiningContext::new of a
\* pool address and a key; when either fails there is no context, the fields
\* hold nothing and no operation is ever called
InitWith(verSet, addrSet, keySet) ==
    \E ver \in verSet, addr \in addrSet, k \in keySet :
        LET p3d == P3dParamsNew(ver)
            made == IF p3d.kind = "panic" THEN [kind |-> "panic"]
                    ELSE MiningContextNew(p3d, addr, TextP1, TextM1, KeyText(k))
        IN  /\ built = [ver |-> ver, addr |-> addr, key |-> k, kind |-> made.kind]
            /\ IF made.kind = "ok"
               THEN /\ p3d_params = made.ctx.p3d_params
                    /\ pool_id = made.ctx.pool_id
                    /\ member_id = made.ctx.member_id
                    /\ key = made.ctx.key
                    /\ cur_state = made.ctx.cur_state
                    /\ in_queue = made.ctx.in_queue
                    /\ out_queue = made.ctx.out_queue
               ELSE /\ p3d_params = None
                    /\ pool_id = <<>>
                    /\ member_id = <<>>
                    /\ key = None
                    /\ cur_state = None
                    /\ in_queue = <<>>
                    /\ out_queue = <<>>
            /\ cur_lock = Free /\ in_lock = Free /\ out_lock = Free
            /\ acc = [i \in Handlers |-> [pc |-> "idle", call |-> "none"]]
            /\ ask = [pc |-> "idle", resp |-> "none"]
            /\ wrk = [w \in Workers |->
                         [pc |-> "idle", params |-> None, obj |-> None, prop |-> None]]
            /\ sub = [pc |-> "idle", prop |-> None, req |-> None]
            /\ returned = Returned("none", "none", NoRet)
            /\ in_hist = [pushed |-> <<>>, popped |-> <<>>]
            /\ out_hist = [pushed |-> <<>>, popped |-> <<>>]
            /\ sent = <<>>
            /\ calls = [accept |-> 0, refresh |-> 0, propose |-> 0]

\* MiningContext::new of a valid configuration: nothing is known of the round,
\* both queues are empty
Init == InitWith({Version}, {"url"}, {"seed"})

\* ---------------------------------------------------------- on_new_object
\* a call arrives and its parameters are parsed: an unwrap that fails ends the
\* call, otherwise the call takes the mutex of in_queue
OnNewObject(i, call) ==
    /\ built.kind = "ok"
    /\ acc[i].pc = "idle"
    /\ calls.accept < MaxAccepts
    /\ calls' = [calls EXCEPT !.accept = @ + 1]
    /\ IF ParseObject(CallParams(call)).kind = "panic"
       THEN /\ returned' = Returned("on_new_object", call, Panicked)
            /\ UNCHANGED <<acc, in_lock>>
       ELSE /\ in_lock = Free
            /\ in_lock' = <<"accept", i>>
            /\ acc' = [acc EXCEPT ![i] = [pc |-> "push", call |-> call]]
            /\ UNCHANGED returned
    /\ UNCHANGED <<identity, shared, cur_lock, out_lock, ask, wrk, sub, in_hist, out_hist, sent>>

\* push_back, Ok(json!(0)); the guard is dropped on return
OnNewObjectPush(i) ==
    /\ acc[i].pc = "push"
    /\ in_lock = <<"accept", i>>
    /\ LET obj == ParseObject(CallParams(acc[i].call)).obj
       IN  /\ in_queue' = PushBack(in_queue, obj)
           /\ in_hist' = [in_hist EXCEPT !.pushed = Append(@, obj)]
    /\ in_lock' = Free
    /\ acc' = [acc EXCEPT ![i] = [pc |-> "idle", call |-> "none"]]
    /\ returned' = Returned("on_new_object", acc[i].call, ResOk(Ack))
    /\ UNCHANGED <<identity, cur_state, out_queue, cur_lock, out_lock, ask, wrk, sub,
                   out_hist, calls, sent>>

\* ------------------------------------------------------ ask_mining_params
\* a refresh that takes the mutex of cur_state before it sends the request
AskMiningParamsLocked ==
    /\ built.kind = "ok"
    /\ ask.pc = "idle"
    /\ calls.refresh < MaxRefresh
    /\ cur_lock = Free
    /\ cur_lock' = <<"ask", 0>>
    /\ calls' = [calls EXCEPT !.refresh = @ + 1]
    /\ ask' = [pc |-> "await", resp |-> "none"]
    /\ UNCHANGED <<identity, shared, in_lock, out_lock, acc, wrk, sub, returned, in_hist,
                   out_hist, sent>>

\* the request poscan_getMiningParams is sent and awaited
AskMiningParams ==
    /\ built.kind = "ok"
    /\ ask.pc = "idle"
    /\ calls.refresh < MaxRefresh
    /\ calls' = [calls EXCEPT !.refresh = @ + 1]
    /\ ask' = [pc |-> "await", resp |-> "none"]
    /\ UNCHANGED <<identity, shared, locks, acc, wrk, sub, returned, in_hist, out_hist, sent>>

\* a failure of the request that forgets the snapshot of the round
AskTransportErrorClears ==
    /\ ask.pc = "await"
    /\ cur_state' = None
    /\ ask' = [pc |-> "idle", resp |-> "none"]
    /\ returned' = Returned("ask_mining_params", "transport", ResErr)
    /\ UNCHANGED <<identity, in_queue, out_queue, locks, acc, wrk, sub, in_hist, out_hist,
                   calls, sent>>

\* .await?: the request fails, the error is returned
AskTransportError ==
    /\ ask.pc = "await"
    /\ ask' = [pc |-> "idle", resp |-> "none"]
    /\ returned' = Returned("ask_mining_params", "transport", ResErr)
    /\ UNCHANGED <<identity, shared, locks, acc, wrk, sub, in_hist, out_hist, calls, sent>>

\* the response arrives and is decoded: a panic, the message "Incorrect
\* response" and Ok(()), or on to the store
AskResponse(resp) ==
    /\ ask.pc = "await"
    /\ LET kind == AskOutcome(PoolResponse(resp)).kind
       IN  CASE kind = "panic" ->
                  /\ ask' = [pc |-> "idle", resp |-> "none"]
                  /\ returned' = Returned("ask_mining_params", resp, Panicked)
             [] kind = "incorrect" ->
                  /\ ask' = [pc |-> "idle", resp |-> "none"]
                  /\ returned' = Returned("ask_mining_params", resp, ResOk(Unit))
             [] kind = "apply" ->
                  /\ ask' = [pc |-> "lock", resp |-> resp]
                  /\ UNCHANGED returned
    /\ UNCHANGED <<identity, shared, locks, acc, wrk, sub, in_hist, out_hist, calls, sent>>

\* self.cur_state.lock().unwrap()
AskLock ==
    /\ ask.pc = "lock"
    /\ cur_lock = Free
    /\ cur_lock' = <<"ask", 0>>
    /\ ask' = [ask EXCEPT !.pc = "store"]
    /\ UNCHANGED <<identity, shared, in_lock, out_lock, acc, wrk, sub, ghost>>

\* a store that also empties in_queue
AskStoreFlush ==
    /\ ask.pc = "store"
    /\ cur_lock = <<"ask", 0>>
    /\ cur_state' = Store(cur_state, AskOutcome(PoolResponse(ask.resp)).params)
    /\ in_queue' = <<>>
    /\ cur_lock' = Free
    /\ ask' = [pc |-> "idle", resp |-> "none"]
    /\ returned' = Returned("ask_mining_params", ask.resp, ResOk(Unit))
    /\ UNCHANGED <<identity, out_queue, in_lock, out_lock, acc, wrk, sub,
                   in_hist, out_hist, calls, sent>>

\* (*lock) = Some(..), Ok(()); the guard is dropped at the end of the arm
AskStore ==
    /\ ask.pc = "store"
    /\ cur_lock = <<"ask", 0>>
    /\ cur_state' = Store(cur_state, AskOutcome(PoolResponse(ask.resp)).params)
    /\ cur_lock' = Free
    /\ ask' = [pc |-> "idle", resp |-> "none"]
    /\ returned' = Returned("ask_mining_params", ask.resp, ResOk(Unit))
    /\ UNCHANGED <<identity, in_queue, out_queue, in_lock, out_lock, acc, wrk, sub,
                   in_hist, out_hist, calls, sent>>

\* ------------------------------------------------------ the search workers
\* pop_front under the mutex of a queue: the front and the rest
PopFront(q) == [item |-> Head(q), rest |-> Tail(q)]

\* a worker clones the snapshot of the round under the mutex of cur_state and
\* takes the object at the front of in_queue under the mutex of in_queue
WorkerTake(w) ==
    /\ built.kind = "ok"
    /\ wrk[w].pc = "idle"
    /\ calls.propose < MaxProposals
    /\ cur_lock = Free
    /\ IsSome(cur_state)
    /\ in_lock = Free
    /\ in_queue # <<>>
    /\ calls' = [calls EXCEPT !.propose = @ + 1]
    /\ in_queue' = PopFront(in_queue).rest
    /\ in_hist' = [in_hist EXCEPT !.popped = Append(@, PopFront(in_queue).item)]
    /\ wrk' = [wrk EXCEPT ![w] = [pc |-> "found", params |-> cur_state,
                                  obj |-> Some(PopFront(in_queue).item), prop |-> None]]
    /\ UNCHANGED <<identity, cur_state, out_queue, locks, acc, ask, sub, returned, out_hist, sent>>

\* ---------------------------------------------------------- push_to_queue
\* the search finds a hash: the proposal pairs the object with the snapshot
\* read before; push_to_queue takes the mutex of out_queue
PushToQueueLock(w, hash) ==
    /\ wrk[w].pc = "found"
    /\ out_lock = Free
    /\ out_lock' = <<"worker", w>>
    /\ wrk' = [wrk EXCEPT ![w].pc = "push",
                          ![w].prop = Some(MiningProposal(wrk[w].params.val, hash,
                                                          wrk[w].obj.val.obj_id,
                                                          wrk[w].obj.val.obj))]
    /\ UNCHANGED <<identity, shared, cur_lock, in_lock, acc, ask, sub, ghost>>

\* push_back; the guard is dropped on return
PushToQueue(w) ==
    /\ wrk[w].pc = "push"
    /\ out_lock = <<"worker", w>>
    /\ out_queue' = PushBack(out_queue, wrk[w].prop.val)
    /\ out_hist' = [out_hist EXCEPT !.pushed = Append(@, wrk[w].prop.val)]
    /\ out_lock' = Free
    /\ wrk' = [wrk EXCEPT ![w] = [pc |-> "idle", params |-> None, obj |-> None, prop |-> None]]
    /\ UNCHANGED <<identity, cur_state, in_queue, cur_lock, in_lock, acc, ask, sub,
                   returned, in_hist, calls, sent>>

\* ----------------------------------------------------------- push_to_node
\* the sender takes the proposal at the front of out_queue
SubmitPop ==
    /\ sub.pc = "idle"
    /\ out_lock = Free
    /\ out_queue # <<>>
    /\ out_queue' = PopFront(out_queue).rest
    /\ out_hist' = [out_hist EXCEPT !.popped = Append(@, PopFront(out_queue).item)]
    /\ sub' = [pc |-> "package", prop |-> Some(PopFront(out_queue).item), req |-> None]
    /\ UNCHANGED <<identity, cur_state, in_queue, locks, acc, ask, wrk, returned,
                   in_hist, calls, sent>>

\* what to_string and encrypt may answer: Ok, or an error of the encoder or of
\* the cipher
PackagingFailures == {"none", "encode", "crypto"}

\* a request whose generator is seeded by the number of requests sent before
RequestOfCarriedRng(proposal, cur) ==
    LET payload == Payload(pool_id, member_id, p3d_params.algo, proposal, cur)
        message == ToJson(payload)
        encrypted == Encrypt(proposal.params.pub_key, message,
                             Rep(Len(sent), HashBytes))
    IN  PushRequest(encrypted, member_id, Sign(key, encrypted))

\* the request push_to_node sends for a proposal; cur is the shared snapshot
\* at that time, which the code does not read
RequestOf(proposal, cur) ==
    LET payload == Payload(pool_id, member_id, p3d_params.algo, proposal, cur)
        message == ToJson(payload)
        encrypted == Encrypt(proposal.params.pub_key, message, SeedOf(proposal.hash))
    IN  PushRequest(encrypted, member_id, Sign(key, encrypted))

\* the payload is built, serialised, encrypted and signed, the request is sent
\* and awaited; to_string(..).unwrap() and encrypt(..).unwrap() panic on Err
PushToNode(fail) ==
    /\ sub.pc = "package"
    /\ IF fail = "none"
       THEN /\ sub' = [sub EXCEPT !.pc = "await",
                                  !.req = Some(RequestOf(sub.prop.val, cur_state))]
            /\ sent' = Append(sent, [hash |-> sub.prop.val.hash,
                                     req |-> RequestOf(sub.prop.val, cur_state)])
            /\ UNCHANGED returned
       ELSE /\ sub' = [pc |-> "idle", prop |-> None, req |-> None]
            /\ returned' = Returned("push_to_node", fail, Panicked)
            /\ UNCHANGED sent
    /\ UNCHANGED <<identity, shared, locks, acc, ask, wrk, in_hist, out_hist, calls>>

\* a failure of the request after which the proposal is put back on out_queue
PushToNodeErrorRequeue ==
    /\ sub.pc = "await"
    /\ out_lock = Free
    /\ out_queue' = PushBack(out_queue, sub.prop.val)
    /\ sub' = [pc |-> "idle", prop |-> None, req |-> None]
    /\ returned' = Returned("push_to_node", "network", ResErr)
    /\ UNCHANGED <<identity, cur_state, in_queue, locks, acc, ask, wrk, in_hist, out_hist,
                   calls, sent>>

\* .await?: the request fails, the error is returned
PushToNodeError ==
    /\ sub.pc = "await"
    /\ sub' = [pc |-> "idle", prop |-> None, req |-> None]
    /\ returned' = Returned("push_to_node", "network", ResErr)
    /\ UNCHANGED <<identity, shared, locks, acc, ask, wrk, in_hist, out_hist, calls, sent>>

\* the pool acknowledges: Ok(())
PushToNodeOk ==
    /\ sub.pc = "await"
    /\ sub' = [pc |-> "idle", prop |-> None, req |-> None]
    /\ returned' = Returned("push_to_node", "none", ResOk(Unit))
    /\ UNCHANGED <<identity, shared, locks, acc, ask, wrk, in_hist, out_hist, calls, sent>>

\* ---------------------------------------------------------- specification
\* the steps of the system when the calls, the responses of the pool, the
\* hashes found and the failures of packaging are drawn from the given sets
NextWith(callSet, respSet, hashSet, failSet) ==
    \/ \E i \in Handlers, call \in callSet : OnNewObject(i, call)
    \/ \E i \in Handlers : OnNewObjectPush(i)
    \/ AskMiningParams
    \/ AskTransportError
    \/ \E resp \in respSet : AskResponse(resp)
    \/ AskLock
    \/ AskStore
    \/ \E w \in Workers : WorkerTake(w)
    \/ \E w \in Workers, hash \in hashSet : PushToQueueLock(w, hash)
    \/ \E w \in Workers : PushToQueue(w)
    \/ SubmitPop
    \/ \E fail \in failSet : PushToNode(fail)
    \/ PushToNodeError
    \/ PushToNodeOk

Next == NextWith(CallNames, ResponseNames, Hashes, PackagingFailures)

Spec == Init /\ [][Next]_vars

\* the system with every response of the pool, one call, one hash, no failure
\* of packaging
NextRefresh == NextWith({"obj7"}, ResponseNames, {Rep(171, HashBytes)}, {"none"})
SpecRefresh == Init /\ [][NextRefresh]_vars

\* the system with every call, one response of the pool, one hash, no failure
\* of packaging
NextAccept == NextWith(CallNames, {"round1"}, {Rep(171, HashBytes)}, {"none"})
SpecAccept == Init /\ [][NextAccept]_vars

\* the system with every hash and every well-formed response of the pool, one
\* call, no failure of packaging
NextSubmit == NextWith({"obj7"}, WellFormedResponses, Hashes, {"none"})
SpecSubmit == Init /\ [][NextSubmit]_vars

\* the system with every well-formed call, one response of the pool, one hash,
\* no failure of packaging
NextConcurrent == NextWith(WellFormedCalls, {"round1"}, {Rep(171, HashBytes)}, {"none"})
SpecConcurrent == Init /\ [][NextConcurrent]_vars

\* the system from every configuration: every version name, pool address and
\* key; one call, one response of the pool, one hash, no failure of packaging
InitNew == InitWith(VersionNames, PoolAddrs, KeyNames)
NextNew == NextWith({"obj7"}, {"round1"}, {Rep(171, HashBytes)}, {"none"})
SpecNew == InitNew /\ [][NextNew]_vars

\* ------------------------------------------------- expected values (oracles)
\* the snapshot each well-formed response of the model stands for, written out
ExpectedSnapshot(name) ==
    CASE name = "round1" ->
            [pre_hash |-> Rep(17, HashBytes), parent_hash |-> Rep(34, HashBytes),
             win_dfclty |-> Rep(0, HashBytes - 1) \o <<255>>,
             pow_dfclty |-> Rep(0, HashBytes - 2) \o <<10, 0>>,
             pub_key |-> BasePointBytes]
      [] name = "round2" ->
            [pre_hash |-> Rep(51, HashBytes), parent_hash |-> Rep(68, HashBytes),
             win_dfclty |-> Rep(0, HashBytes - 2) \o <<1, 255>>,
             pow_dfclty |-> Rep(0, HashBytes - 1) \o <<16>>,
             pub_key |-> NeutralPointBytes]

\* the MiningObj each well-formed call of the model stands for, written out
ExpectedObj(name) ==
    CASE name = "obj7" -> [obj_id |-> 7, obj |-> <<97, 98, 99>>]
      [] name = "obj8" -> [obj_id |-> 8, obj |-> <<195, 169>>]

\* the members pre_hash, parent_hash and dfclty of the payload of a snapshot,
\* as they are written on the wire
ExpectedWire(name) ==
    CASE name = "round1" ->
            [pre_hash |-> JStr(Text2("0", "x") \o Rep("1", 2 * HashBytes)),
             parent_hash |-> JStr(Text2("0", "x") \o Rep("2", 2 * HashBytes)),
             dfclty |-> JStr(<<"0", "x", "a", "0", "0">>)]
      [] name = "round2" ->
            [pre_hash |-> JStr(Text2("0", "x") \o Rep("3", 2 * HashBytes)),
             parent_hash |-> JStr(Text2("0", "x") \o Rep("4", 2 * HashBytes)),
             dfclty |-> JStr(<<"0", "x", "1", "0">>)]

\* the search parameters of each known version name and the wire string of
\* their algorithm, written out
KnownVersions == {"grid2d", "grid2d_v2", "grid2d_v3"}
ExpectedP3d(ver) ==
    CASE ver = "grid2d" ->
            [algo |-> "Grid2d", grid |-> 8, sect |-> 66,
             wire |-> <<"G", "r", "i", "d", "2", "d">>]
      [] ver = "grid2d_v2" ->
            [algo |-> "Grid2dV2", grid |-> 8, sect |-> 12,
             wire |-> <<"G", "r", "i", "d", "2", "d", "V", "2">>]
      [] ver = "grid2d_v3" ->
            [algo |-> "Grid2dV3", grid |-> 8, sect |-> 12,
             wire |-> <<"G", "r", "i", "d", "2", "d", "V", "3">>]

\* how often x occurs in the sequence s
Count(x, s) == Cardinality({k \in 1..Len(s) : s[k] = x})

\* ------------------------------------------------------------------ claims
\* C1: a refresh whose response is malformed (a field absent, no string, or
\* unparsable) leaves cur_state as it was: no step of the call writes
\* cur_state while the response is awaited, and a malformed response ends the
\* call at once, without reaching the store.
C1_MalformedLeavesSnapshot ==
    [][/\ ask.pc = "await" => cur_state' = cur_state
       /\ \A r \in MalformedResponses :
             (ask'.resp = r \/ (returned'.op = "ask_mining_params" /\ returned'.arg = r
                                /\ returned' # returned))
                => (ask.pc = "await" /\ ask'.pc = "idle" /\ cur_state' = cur_state)]_vars

\* a refresh answered with a point off the curve has ended and the snapshot
\* of the round before is still there
C1_Witness ==
    /\ returned.op = "ask_mining_params" /\ returned.arg = "badPoint"
    /\ ask.pc = "idle"
    /\ cur_state = Some(ExpectedSnapshot("round1"))

\* C2: a refresh whose response is malformed returns an error value to its
\* caller (it neither panics nor returns success).
C2_MalformedReturnsError ==
    (returned.op = "ask_mining_params" /\ returned.arg \in MalformedResponses)
        => returned.ret.tag = "Err"

\* C3: after a refresh that received a well-formed response, cur_state is the
\* snapshot of that response: pre_hash, parent_hash, win_dfclty, pow_dfclty from
\* positions 0..3, the public key from the reversed encoding of position 4, and
\* nothing of the snapshot before.
C3_RefreshStoresResponse ==
    (returned.op = "ask_mining_params" /\ returned.arg \in WellFormedResponses) =>
        (returned.ret = ResOk(Unit) /\ cur_state = Some(ExpectedSnapshot(returned.arg)))

\* the second round replaced the first, which a worker had read
C3_Witness ==
    /\ returned = Returned("ask_mining_params", "round2", ResOk(Unit))
    /\ cur_state = Some(ExpectedSnapshot("round2"))
    /\ \E w \in Workers : wrk[w].params = Some(ExpectedSnapshot("round1"))

\* C4: cur_state, and every copy of it a reader holds, is empty or the whole
\* snapshot of one single response, in every state of every interleaving of
\* refreshes and readers.
C4_SnapshotOfOneResponse ==
    LET Whole(o) == o = None \/ \E r \in WellFormedResponses : o = Some(ExpectedSnapshot(r))
    IN  /\ Whole(cur_state)
        /\ \A w \in Workers : Whole(wrk[w].params)
        /\ \A k \in 1..Len(out_queue) : Whole(Some(out_queue[k].params))

\* a refresh holds the mutex to store the second round while the first is
\* still the snapshot, of which a worker holds a copy
C4_Witness ==
    /\ ask.pc = "store" /\ ask.resp = "round2"
    /\ cur_state = Some(ExpectedSnapshot("round1"))
    /\ \E w \in Workers : wrk[w].params = Some(ExpectedSnapshot("round1"))

\* C5: an accept call with malformed parameters returns a structured error to
\* its caller instead of aborting.
C5_MalformedCallReturnsError ==
    (returned.op = "on_new_object" /\ returned.arg \in MalformedCalls)
        => returned.ret.tag = "Err"

\* C6: an accept call with well-formed parameters [obj_id, data] appends one
\* MiningObj with that obj_id and the bytes of data to the tail of in_queue and
\* returns 0; it never panics and has no position where it awaits the network
\* or a consumer.
C6_AcceptAppendsOne ==
    [][\A i \in Handlers :
          /\ (acc[i].pc = "push" /\ acc'[i].pc = "idle") =>
                /\ in_queue' = Append(in_queue, ExpectedObj(acc[i].call))
                /\ returned' = Returned("on_new_object", acc[i].call, ResOk(Ack))
          /\ acc'[i].pc \in {"idle", "push"}
          /\ (returned'.op = "on_new_object" /\ returned'.arg \in WellFormedCalls)
                => returned'.ret = ResOk(Ack)]_vars

\* the object of the second call is behind the object of the first
C6_Witness ==
    /\ in_queue = <<ExpectedObj("obj7"), ExpectedObj("obj8")>>
    /\ returned = Returned("on_new_object", "obj8", ResOk(Ack))

\* C7: each queue is first in, first out: what was popped, followed by what is
\* queued, is what was pushed, in the order pushed; for in_queue and for
\* out_queue, each on its own.
C7_Fifo ==
    /\ in_hist.pushed = in_hist.popped \o in_queue
    /\ out_hist.pushed = out_hist.popped \o out_queue

\* two different objects, and two different proposals, were pushed and popped
C7_Witness ==
    /\ Len(in_hist.popped) = 2 /\ in_hist.popped[1] # in_hist.popped[2]
    /\ Len(out_hist.popped) = 2 /\ out_hist.popped[1] # out_hist.popped[2]

\* C8: under every interleaving of producers and consumers of a queue, each
\* item pushed is either still queued or was removed by one pop: it is never
\* delivered twice and never dropped; a consumer holds only what was popped.
C8_ExactlyOnce ==
    /\ \A k \in 1..Len(in_hist.pushed) :
          LET x == in_hist.pushed[k]
          IN  Count(x, in_hist.pushed) = Count(x, in_hist.popped) + Count(x, in_queue)
    /\ \A k \in 1..Len(out_hist.pushed) :
          LET x == out_hist.pushed[k]
          IN  Count(x, out_hist.pushed) = Count(x, out_hist.popped) + Count(x, out_queue)
    /\ Len(in_hist.pushed) = Len(in_hist.popped) + Len(in_queue)
    /\ Len(out_hist.pushed) = Len(out_hist.popped) + Len(out_queue)
    /\ \A w \in Workers : IsSome(wrk[w].obj) => Count(wrk[w].obj.val, in_hist.popped) >= 1
    /\ Cardinality({w \in Workers : IsSome(wrk[w].obj)}) <= Len(in_hist.popped)

\* two calls pushed the same object and each of two workers holds one of them
C8_Witness ==
    /\ in_hist.pushed = <<ExpectedObj("obj7"), ExpectedObj("obj7")>>
    /\ \A w \in Workers : wrk[w].pc = "found" /\ wrk[w].obj = Some(ExpectedObj("obj7"))
    /\ in_queue = <<>>

\* C9: the request of a submission carries the pre_hash, parent_hash and
\* pow_dfclty of the snapshot inside the proposal and is encrypted to the
\* public key of that snapshot, whatever cur_state is by then.
C9_PayloadFromProposal ==
    sub.pc = "await" =>
        LET enc == sub.req.val.params.encrypted
        IN  \E r \in WellFormedResponses :
                /\ sub.prop.val.params = ExpectedSnapshot(r)
                /\ enc.to = ExpectedSnapshot(r).pub_key
                /\ enc.plain[3] = <<"pre_hash", ExpectedWire(r).pre_hash>>
                /\ enc.plain[4] = <<"parent_hash", ExpectedWire(r).parent_hash>>
                /\ enc.plain[6] = <<"dfclty", ExpectedWire(r).dfclty>>

\* a proposal of the first round is submitted after the second round replaced it
C9_Witness ==
    /\ sub.pc = "await"
    /\ sub.prop.val.params = ExpectedSnapshot("round1")
    /\ cur_state = Some(ExpectedSnapshot("round2"))

\* C10: every failure inside a submission (of the network, of the encoder, of
\* the cipher) is returned to the caller as an error value.
C10_FailuresReturned ==
    (returned.op = "push_to_node" /\ returned.arg # "none") => returned.ret.tag = "Err"

\* C11: one call of push_to_node sends at most one request: a request is sent
\* only by the step from packaging to awaiting, and what was sent never exceeds
\* the calls started; the step that ends the wait (with the error of the
\* request, or with Ok) ends the call, which keeps nothing, sends nothing again
\* and leaves out_queue as it was: a proposal whose request failed is gone.
C11_NoRetryNoRequeue ==
    /\ [](Len(sent) <= Len(out_hist.popped))
    /\ [][/\ sent' # sent =>
                (sub.pc = "package" /\ sub'.pc = "await" /\ Len(sent') = Len(sent) + 1)
          /\ (sub.pc = "await" /\ sub' # sub) =>
                /\ sub' = [pc |-> "idle", prop |-> None, req |-> None]
                /\ out_queue' = out_queue
                /\ sent' = sent]_vars

\* the request of the only proposal failed: the call has ended, and the
\* proposal is neither queued nor held by anyone
C11_Witness ==
    /\ returned = Returned("push_to_node", "network", ResErr)
    /\ Len(out_hist.pushed) = 1 /\ Len(out_hist.popped) = 1 /\ Len(sent) = 1
    /\ out_queue = <<>> /\ sub.pc = "idle"
    /\ \A w \in Workers : wrk[w].pc = "idle"

\* C12: while a refresh or a submission awaits the pool, it holds none of the
\* three mutexes: each mutex is free or held by an accept call or a worker at
\* its push, and every such push can be taken at once, as can a new accept
\* call when in_queue's mutex is free.
C12_NoLockAcrossAwait ==
    LET Mutexes == {cur_lock, in_lock, out_lock}
        Awaiting == ask.pc = "await" \/ sub.pc = "await"
    IN  /\ ask.pc = "await" => \A l \in Mutexes : l[1] # "ask"
        /\ sub.pc = "await" => \A l \in Mutexes : l[1] # "submit"
        /\ Awaiting =>
              /\ \A i \in Handlers : acc[i].pc = "push" => ENABLED OnNewObjectPush(i)
              /\ \A w \in Workers : wrk[w].pc = "push" => ENABLED PushToQueue(w)
              /\ (in_lock = Free /\ calls.accept < MaxAccepts) =>
                    \A i \in Handlers : acc[i].pc = "idle" => ENABLED OnNewObject(i, "obj7")

\* a refresh and a submission both await the pool while an accept call holds
\* the mutex of in_queue, about to push
C12_Witness ==
    /\ ask.pc = "await" /\ sub.pc = "await"
    /\ \E i \in Handlers : acc[i].pc = "push" /\ in_lock = <<"accept", i>>

\* C13: a context built with a secret key that is no valid hex, or that does
\* not decode to 32 bytes, ends with an error returned to the caller, and then
\* there is no context (no key, nothing that runs); with a valid key the
\* context starts with cur_state empty and both queues empty.
C13_BadKeyReturnsError ==
    /\ (built.ver \in KnownVersions /\ built.key \in BadEncodingKeys \cup BadLengthKeys) =>
          (built.kind = "err" /\ key = None /\ calls.accept + calls.refresh = 0)
    /\ (built.ver \in KnownVersions /\ built.key \in ValidKeys /\ built.addr = "url") =>
          /\ built.kind = "ok" /\ key = [secret |-> KeySeed]
          /\ calls.accept + calls.refresh = 0 =>
                (cur_state = None /\ in_queue = <<>> /\ out_queue = <<>>)

\* C14: search parameters built from a name that is none of grid2d, grid2d_v2,
\* grid2d_v3 end with an error value, not with an abort of the process.
C14_UnknownNameIsError ==
    built.ver \notin KnownVersions => built.kind = "err"

\* C15: the search parameters of grid2d are (Grid2d, 8, 66), of grid2d_v2
\* (Grid2dV2, 8, 12), of grid2d_v3 (Grid2dV3, 8, 12); the wire strings of the
\* three algorithms are Grid2d, Grid2dV2, Grid2dV3, one for each, and it is the
\* wire string of the configured name that a submission carries.
C15_ParamsOfName ==
    /\ built.ver \in KnownVersions =>
          LET got == P3dParamsNew(built.ver)
              exp == ExpectedP3d(built.ver)
          IN  /\ got.kind = "ok"
              /\ got.algo = exp.algo /\ got.grid = exp.grid /\ got.sect = exp.sect
              /\ AsStr(got.algo) = exp.wire
              /\ \A other \in KnownVersions \ {built.ver} :
                    /\ P3dParamsNew(other).algo # got.algo
                    /\ AsStr(P3dParamsNew(other).algo) # AsStr(got.algo)
    /\ built.kind = "ok" =>
          /\ p3d_params.algo = ExpectedP3d(built.ver).algo
          /\ p3d_params.grid = ExpectedP3d(built.ver).grid
          /\ p3d_params.sect = ExpectedP3d(built.ver).sect
    /\ sub.pc = "await" =>
          sub.req.val.params.encrypted.plain[5] =
              <<"algo", JStr(ExpectedP3d(built.ver).wire)>>

\* a context built for grid2d_v3 submits a proposal whose payload names Grid2dV3
C15_Witness ==
    /\ built.ver = "grid2d_v3" /\ built.kind = "ok"
    /\ p3d_params.sect = 12
    /\ sub.pc = "await"
    /\ sub.req.val.params.encrypted.plain[5] =
          <<"algo", JStr(<<"G", "r", "i", "d", "2", "d", "V", "3">>)>>

C17_TransportErrorKeepsSnapshot ==
    /\ []((returned.op = "ask_mining_params" /\ returned.arg = "transport") =>
            /\ returned.ret = ResErr
            /\ (ask.pc = "idle" /\ calls.refresh < MaxRefresh) => ENABLED AskMiningParams)
    /\ [][(/\ ask.pc = "await" /\ ask'.pc = "idle"
           /\ returned'.op = "ask_mining_params" /\ returned'.arg = "transport") =>
              (cur_state' = cur_state /\ returned'.ret = ResErr)]_vars

\* the second refresh failed in the transport: the snapshot of the first is
\* still there, and a worker reads it
C17_Witness ==
    /\ returned = Returned("ask_mining_params", "transport", ResErr)
    /\ calls.refresh = 2 /\ ask.pc = "idle"
    /\ cur_state = Some(ExpectedSnapshot("round1"))
    /\ \E w \in Workers : wrk[w].pc = "found" /\ wrk[w].params = cur_state

\* C18: under every interleaving of concurrent well-formed accept calls, each
\* call that has returned left one object of its own in in_queue: the objects
\* queued and the objects popped meanwhile are as many as the calls made, less
\* those that still hold the mutex before their push, and each is the object
\* of a call; two calls with the same obj_id and data leave two objects.
C18_NoEnqueueLost ==
    LET inFlight == Cardinality({i \in Handlers : acc[i].pc = "push"})
        all == in_hist.popped \o in_queue
    IN  /\ Len(in_queue) + Len(in_hist.popped) + inFlight = calls.accept
        /\ \A k \in 1..Len(all) : \E c \in WellFormedCalls : all[k] = ExpectedObj(c)
        /\ inFlight <= 1

\* two calls with the same obj_id and data have returned: one of the two
\* objects was popped meanwhile, the other is queued
C18_Witness ==
    /\ calls.accept = 2
    /\ \A i \in Handlers : acc[i].pc = "idle"
    /\ returned = Returned("on_new_object", "obj7", ResOk(Ack))
    /\ in_hist.popped = <<ExpectedObj("obj7")>>
    /\ in_queue = <<ExpectedObj("obj7")>>

\* C19: each operation changes its own resource only.  A step of an accept
\* call leaves cur_state and out_queue alone; a step of push_to_queue leaves
\* cur_state and in_queue alone; a step of a refresh leaves both queues alone;
\* a step of a submission leaves cur_state and both queues alone.  cur_state is
\* changed by the store of a refresh only, in_queue by the push of an accept
\* call or the pop of a worker only, out_queue by push_to_queue or the pop of
\* the sender only.  No step changes p3d_params, pool_id, member_id or key.
C19_FrameEffects ==
    [][/\ <<p3d_params, pool_id, member_id, key>>' = <<p3d_params, pool_id, member_id, key>>
       /\ acc' # acc => (cur_state' = cur_state /\ out_queue' = out_queue)
       /\ (\E w \in Workers : wrk[w].pc \in {"found", "push"} /\ wrk'[w] # wrk[w]) =>
             (cur_state' = cur_state /\ in_queue' = in_queue)
       /\ ask' # ask => (in_queue' = in_queue /\ out_queue' = out_queue)
       /\ (sub.pc # "idle" /\ sub' # sub) => shared' = shared
       /\ cur_state' # cur_state => (ask.pc = "store" /\ ask'.pc = "idle")
       /\ in_queue' # in_queue =>
             \/ \E i \in Handlers : acc[i].pc = "push" /\ acc'[i].pc = "idle"
             \/ \E w \in Workers : wrk[w].pc = "idle" /\ wrk'[w].pc = "found"
       /\ out_queue' # out_queue =>
             \/ \E w \in Workers : wrk[w].pc = "push" /\ wrk'[w].pc = "idle"
             \/ sub.pc = "idle" /\ sub'.pc = "package"]_vars

\* an accept call, a refresh, a push_to_queue and a submission have each run
\* to their end, and the identity is what the context was built with
C19_Witness ==
    /\ in_hist.pushed # <<>> /\ out_hist.pushed # <<>> /\ IsSome(cur_state)
    /\ returned = Returned("push_to_node", "none", ResOk(Unit))
    /\ pool_id = TextP1 /\ member_id = TextM1 /\ key = [secret |-> KeySeed]
    /\ p3d_params.algo = "Grid2dV2"

\* C20: cur_state is empty at the start, and once a refresh has stored a
\* snapshot no step of any operation (a refresh that fails, is answered with a
\* malformed response or succeeds, an accept call, a submission) empties it:
\* it changes only to the whole snapshot of a response.
C20_PopulatedStaysPopulated ==
    /\ cur_state = None
    /\ [][/\ IsSome(cur_state) => IsSome(cur_state')
          /\ cur_state' # cur_state =>
                \E r \in WellFormedResponses : cur_state' = Some(ExpectedSnapshot(r))]_vars

\* the snapshot of the first round is there after a later refresh failed in
\* the transport, while an object is queued and a submission awaits the pool
C20_Witness ==
    /\ cur_state = Some(ExpectedSnapshot("round1"))
    /\ returned = Returned("ask_mining_params", "transport", ResErr)
    /\ in_queue # <<>>
    /\ sub.pc = "await"

====
